---- MODULE Spec2Model ----
(***************************************************************************)
(* Model of the monthly-variation pipeline of the Fintual dashboard:       *)
(* groupDataByMonth, sortMonthDataChronologically, getMonthName,           *)
(* isDateInRange, calculateVariationStats, getChartColors                  *)
(* (core/utils/financial.utils.ts), FinancialService                       *)
(* .calculateMonthlyVariation / filterDataByDateRange /                    *)
(* calculateStatistics / createChartData                                   *)
(* (core/services/financial.service.ts), and of the component App that     *)
(* loads a fund and shows it (features/dashboard/dashboard.component.ts).  *)
(*                                                                         *)
(* Specifications.                                                         *)
(*  - Spec: calculateMonthlyVariation, then filterDataByDateRange, on a    *)
(*    list of raw records.                                                 *)
(*  - SpecReport: calculateStatistics and createChartData on a variation   *)
(*    list.                                                                *)
(*  - SpecPipeline: the four calls in a row, then all four again on the    *)
(*    same list.                                                           *)
(*  - SpecDash: the component loading funds: its requests in flight and    *)
(*    their answers in any order, before and after ngOnDestroy.            *)
(*  - SpecFilter: the component filtering what it loaded: the date fields  *)
(*    and the quick ranges next to loads of two funds.                     *)
(*                                                                         *)
(* Conventions.                                                            *)
(*  - A JavaScript string is a sequence of one-character strings, so that  *)
(*    split('-'), parseInt, padStart and the default (code unit) order of  *)
(*    Array.prototype.sort are computed, not assumed.                      *)
(*  - An optional value (a field that may be undefined) is a sequence of   *)
(*    length at most one: <<>> is undefined, <<v>> is the value v.         *)
(*  - A JavaScript number that may be NaN is <<>> (NaN) or <<n>>.          *)
(*  - A percentage is an integer number of hundredths: 500 is 5.00.        *)
(*  - The variables monthlyVariations, filteredVariations, startDate,      *)
(*    endDate, statistics and chartData are the results of the service     *)
(*    calls in the pipeline specifications and the component's signals of  *)
(*    the same names in the dashboard specification.                       *)
(*  - An element of the input list is a record [kind, dateType, date,      *)
(*    price, attributes]: kind is "object" or "null" (the element is null  *)
(*    or undefined), dateType is the typeof of the date value it carries   *)
(*    ("string" or "number"; a number is written by its digits).           *)
(***************************************************************************)
EXTENDS Integers, Sequences, FiniteSets

VARIABLES
    lenientDates,        \* the engine's Date parser accepts non-ISO "Y-M-D" strings
    data,                \* the caller's list of raw daily records
    given,               \* history: the list as the caller built it
    monthlyVariations,   \* result of calculateMonthlyVariation(data)
    emittedKeys,         \* history: the month key behind each emitted entry
    startDate,           \* filter bound handed to filterDataByDateRange
    endDate,             \* filter bound handed to filterDataByDateRange
    filteredVariations,  \* result of filterDataByDateRange
    statistics,          \* result of calculateStatistics, <<>> before the call
    chartData,           \* result of createChartData, <<>> before the call
    second,              \* the four results of a second run, <<>> before it
    pc,                  \* "input", "calculated", "raised", "filtered",
                         \* "statistics", "charted" or "rerun"; "dashboard"
                         \* while the component drives the calls
    selectedAssetId,     \* dashboard: the fund chosen in the selector
    appState,            \* dashboard: "loading", "loaded", "error" or "empty"
    errorMessage,        \* dashboard: the message shown with state "error"
    requests,            \* the funds of the HTTP requests still in flight
    loadedFrom,          \* history: the fund whose response monthlyVariations come from
    lifecycle,           \* "constructed", "active" after ngOnInit, "destroyed"
                         \* after ngOnDestroy
    presetDateRanges,    \* dashboard: the quick ranges, computed at construction
    answer               \* history: what the API answered, if the last step
                         \* was a callback of a request; <<>> otherwise

dashVars == <<selectedAssetId, appState, errorMessage, requests, loadedFrom, lifecycle,
              presetDateRanges, answer>>

vars == <<lenientDates, data, given, monthlyVariations, emittedKeys,
          startDate, endDate, filteredVariations, statistics, chartData, second, pc,
          selectedAssetId, appState, errorMessage, requests, loadedFrom, lifecycle,
          presetDateRanges, answer>>

\* Longest input list drawn from a record family.
MaxLen == 3

----------------------------------------------------------------------------
(* JavaScript strings and numbers *)

Range(f) == {f[i] : i \in 1..Len(f)}

Undefined == <<>>
NaN == <<>>
Some(v) == <<v>>

Digits == <<"0", "1", "2", "3", "4", "5", "6", "7", "8", "9">>
Letters == <<"a", "b", "c", "d", "e", "f", "g", "h", "i", "j", "k", "l", "m",
             "n", "o", "p", "q", "r", "s", "t", "u", "v", "w", "x", "y", "z">>

IsDigit(c) == \E i \in 1..Len(Digits) : Digits[i] = c
DigitVal(c) == (CHOOSE i \in 1..Len(Digits) : Digits[i] = c) - 1

\* UTF-16 code unit of a character of the alphabet the model uses.
CodeUnit(c) ==
    IF c = "-" THEN 45
    ELSE IF IsDigit(c) THEN 48 + DigitVal(c)
    ELSE 96 + (CHOOSE i \in 1..Len(Letters) : Letters[i] = c)

\* a < b in the order Array.prototype.sort() uses without a comparator.
RECURSIVE StrLess(_, _)
StrLess(a, b) ==
    IF b = <<>> THEN FALSE
    ELSE IF a = <<>> THEN TRUE
    ELSE IF a[1] = b[1] THEN StrLess(Tail(a), Tail(b))
    ELSE CodeUnit(a[1]) < CodeUnit(b[1])

\* String.prototype.split(sep) for a one-character separator.
RECURSIVE SplitFrom(_, _, _)
SplitFrom(s, sep, cur) ==
    IF s = <<>> THEN <<cur>>
    ELSE IF s[1] = sep THEN <<cur>> \o SplitFrom(Tail(s), sep, <<>>)
    ELSE SplitFrom(Tail(s), sep, Append(cur, s[1]))

Split(s, sep) == SplitFrom(s, sep, <<>>)

RECURSIVE DigitPrefix(_)
DigitPrefix(s) ==
    IF s = <<>> \/ ~IsDigit(s[1]) THEN <<>>
    ELSE <<s[1]>> \o DigitPrefix(Tail(s))

RECURSIVE DigitsValue(_)
DigitsValue(s) ==
    IF s = <<>> THEN 0
    ELSE 10 * DigitsValue(SubSeq(s, 1, Len(s) - 1)) + DigitVal(s[Len(s)])

\* parseInt(s): the value of the longest decimal prefix, NaN when there is none.
\* (The components parsed here come from split('-') and hold no sign.)
parseInt(s) ==
    LET p == DigitPrefix(s)
    IN  IF p = <<>> THEN NaN ELSE Some(DigitsValue(p))

\* String(n) for an integer n >= 0.
RECURSIVE NumberToString(_)
NumberToString(n) ==
    IF n < 10 THEN <<Digits[n + 1]>>
    ELSE NumberToString(n \div 10) \o <<Digits[(n % 10) + 1]>>

\* s.padStart(2, '0')
PadStart2(s) == IF Len(s) >= 2 THEN s ELSE IF Len(s) = 1 THEN <<"0">> \o s ELSE <<"0", "0">>

AllDigits(s) == s /= <<>> /\ \A i \in 1..Len(s) : IsDigit(s[i])

----------------------------------------------------------------------------
(* new Date(string).getTime() *)

IsLeap(y) == (y % 4 = 0 /\ y % 100 /= 0) \/ y % 400 = 0

DaysInMonth(y, m) ==
    IF m = 2 THEN (IF IsLeap(y) THEN 29 ELSE 28)
    ELSE IF m \in {4, 6, 9, 11} THEN 30 ELSE 31

\* A time value that orders calendar days as getTime() does.
DayOrdinal(y, m, d) == (y * 12 + (m - 1)) * 31 + d

\* The ECMAScript date-only forms "YYYY-MM-DD" and "YYYY-MM" with legal
\* element values: every engine reads them as UTC midnight.
IsISODate(s) ==
    LET p == Split(s, "-")
    IN  /\ Len(p) \in {2, 3}
        /\ Len(p[1]) = 4 /\ AllDigits(p[1])
        /\ Len(p[2]) = 2 /\ AllDigits(p[2])
        /\ DigitsValue(p[2]) \in 1..12
        /\ Len(p) = 3 =>
              /\ Len(p[3]) = 2 /\ AllDigits(p[3])
              /\ DigitsValue(p[3]) \in 1..DaysInMonth(DigitsValue(p[1]), DigitsValue(p[2]))

\* A string outside the ECMAScript format that a lenient engine still reads
\* as year-month-day ("2023-1-05"); a strict engine answers Invalid Date.
IsLegacyDate(s) ==
    LET p == Split(s, "-")
    IN  /\ Len(p) = 3
        /\ \A i \in 1..3 : AllDigits(p[i])
        /\ DigitsValue(p[2]) \in 1..12
        /\ DigitsValue(p[3]) \in 1..31

\* new Date(s).getTime(): NaN for Invalid Date.  Parsing of a string that is
\* not in the ECMAScript format is implementation-defined: lenientDates is
\* the engine's choice.  (A lenient engine reads such a string in local time
\* and an ISO date in UTC; the ordinal keeps the calendar day only, which
\* orders any two dates that name different days.)
DateTime(s) ==
    LET p == Split(s, "-")
    IN  IF IsISODate(s)
        THEN Some(DayOrdinal(DigitsValue(p[1]), DigitsValue(p[2]),
                             IF Len(p) = 3 THEN DigitsValue(p[3]) ELSE 1))
        ELSE IF lenientDates /\ IsLegacyDate(s)
        THEN Some(DayOrdinal(DigitsValue(p[1]), DigitsValue(p[2]), DigitsValue(p[3])))
        ELSE NaN

----------------------------------------------------------------------------
(* financial.utils.ts *)

monthNames == <<"Ene", "Feb", "Mar", "Abr", "May", "Jun",
                "Jul", "Ago", "Sep", "Oct", "Nov", "Dic">>

\* monthNames[monthNumber - 1] || 'Desconocido'
getMonthName(monthNumber) ==
    IF monthNumber \in 1..Len(monthNames) THEN monthNames[monthNumber] ELSE "Desconocido"

\* day.date || day.attributes?.date
RawDate(day) ==
    IF day.date /= Undefined /\ day.date[1] /= <<>> THEN day.date
    ELSE IF day.attributes = Undefined THEN Undefined
    ELSE day.attributes[1].date

\* Mutant of RawPrice: only the flat field is read (day.price).
RawPrice_FlatOnly(day) == day.price

\* day.price ?? day.attributes?.price
RawPrice(day) ==
    IF day.price /= Undefined THEN day.price
    ELSE IF day.attributes = Undefined THEN Undefined
    ELSE day.attributes[1].price

\* price || 0
PriceOrZero(price) == IF price = Undefined THEN 0 ELSE price[1]

\* `${year}-${month}` of the first two split components
MonthKey(dateParts) == dateParts[1] \o <<"-">> \o dateParts[2]

HasKey(monthlyData, key) == \E i \in 1..Len(monthlyData) : monthlyData[i].key = key

\* monthlyData.get(monthKey)
MapGet(monthlyData, key) ==
    monthlyData[CHOOSE i \in 1..Len(monthlyData) : monthlyData[i].key = key].days

\* Mutant of MapPush: the record is put at the front of its bucket (unshift).
MapPush_Unshift(monthlyData, key, dayData) ==
    IF HasKey(monthlyData, key)
    THEN [i \in 1..Len(monthlyData) |->
            IF monthlyData[i].key = key
            THEN [monthlyData[i] EXCEPT !.days = <<dayData>> \o @]
            ELSE monthlyData[i]]
    ELSE Append(monthlyData, [key |-> key, days |-> <<dayData>>])

\* if (!has) set(key, []);  get(key).push(dayData)
MapPush(monthlyData, key, dayData) ==
    IF HasKey(monthlyData, key)
    THEN [i \in 1..Len(monthlyData) |->
            IF monthlyData[i].key = key
            THEN [monthlyData[i] EXCEPT !.days = Append(@, dayData)]
            ELSE monthlyData[i]]
    ELSE Append(monthlyData, [key |-> key, days |-> <<dayData>>])

\* day.date, the first expression of the forEach callback, throws a
\* TypeError when an element of the list is null or undefined.
GroupRaises(d) == \E i \in 1..Len(d) : d[i].kind = "null"

\* The body of data.forEach in groupDataByMonth, for one record.
\* if (!date || typeof date !== 'string') return;
GroupOne(monthlyData, day) ==
    LET date  == RawDate(day)
        price == RawPrice(day)
    IN  IF date = Undefined \/ date[1] = <<>> \/ day.dateType /= "string" THEN monthlyData
        ELSE LET dateParts == Split(date[1], "-")
             IN  IF Len(dateParts) >= 2
                 THEN MapPush(monthlyData, MonthKey(dateParts),
                              [date |-> date[1], price |-> PriceOrZero(price)])
                 ELSE monthlyData

\* The Map, in insertion order, as a sequence of [key, days].
RECURSIVE groupDataByMonth(_)
groupDataByMonth(d) ==
    IF d = <<>> THEN <<>>
    ELSE GroupOne(groupDataByMonth(SubSeq(d, 1, Len(d) - 1)), d[Len(d)])

\* a.getTime() - b.getTime() as the sort reads it: NaN counts as 0.
CompareDates(a, b) ==
    LET ta == DateTime(a.date)
        tb == DateTime(b.date)
    IN  IF ta = NaN \/ tb = NaN THEN 0 ELSE ta[1] - tb[1]

RECURSIVE InsertByDate(_, _)
InsertByDate(sorted, x) ==
    IF sorted = <<>> THEN <<x>>
    ELSE IF CompareDates(sorted[Len(sorted)], x) > 0
         THEN Append(InsertByDate(SubSeq(sorted, 1, Len(sorted) - 1), x), sorted[Len(sorted)])
         ELSE Append(sorted, x)

\* monthData.sort(comparator): Array.prototype.sort is stable.  (With dates
\* that are all valid or all Invalid the comparator is consistent and this
\* is the order every engine produces; the inputs below never mix the two
\* within one month.)
RECURSIVE sortMonthDataChronologically(_)
sortMonthDataChronologically(monthData) ==
    IF monthData = <<>> THEN <<>>
    ELSE InsertByDate(sortMonthDataChronologically(SubSeq(monthData, 1, Len(monthData) - 1)),
                      monthData[Len(monthData)])

\* Array.from(monthlyData.keys())
MapKeys(monthlyData) == [i \in 1..Len(monthlyData) |-> monthlyData[i].key]

----------------------------------------------------------------------------
(* financial.service.ts: calculateMonthlyVariation *)

RECURSIVE InsertKey(_, _)
InsertKey(sorted, k) ==
    IF sorted = <<>> THEN <<k>>
    ELSE IF StrLess(k, sorted[Len(sorted)])
         THEN Append(InsertKey(SubSeq(sorted, 1, Len(sorted) - 1), k), sorted[Len(sorted)])
         ELSE Append(sorted, k)

\* Mutant of SortKeys: the .sort() call is missing, the keys stay in the
\* Map's insertion order.
SortKeys_Unsorted(keys) == keys

\* keys.sort(): ascending by UTF-16 code units.
RECURSIVE SortKeys(_)
SortKeys(keys) ==
    IF keys = <<>> THEN <<>>
    ELSE InsertKey(SortKeys(SubSeq(keys, 1, Len(keys) - 1)), keys[Len(keys)])

\* if (!firstPrice || !lastPrice || firstPrice === 0) return;   negated
PricesUsable(firstPrice, lastPrice) == ~(firstPrice = 0 \/ lastPrice = 0 \/ firstPrice = 0)

Abs(x) == IF x < 0 THEN -x ELSE x

\* parseFloat((((lastPrice - firstPrice) / firstPrice) * 100).toFixed(2)), in
\* hundredths.  toFixed rounds the magnitude to the nearest hundredth and
\* takes the larger candidate on a tie.
Variation(firstPrice, lastPrice) ==
    LET num == (lastPrice - firstPrice) * 10000
        mag == (2 * Abs(num) + Abs(firstPrice)) \div (2 * Abs(firstPrice))
    IN  IF (num < 0) = (firstPrice < 0) THEN mag ELSE -mag

\* Mutant of KeyInRange: the lower bound is off by one (monthNum <= 1).
KeyInRange_LowerOffByOne(yearNum, monthNum) ==
    ~(yearNum = NaN \/ monthNum = NaN \/ monthNum[1] <= 1 \/ monthNum[1] > 12)

\* Mutant of KeyInRange: the upper bound is not checked.
KeyInRange_NoUpperBound(yearNum, monthNum) ==
    ~(yearNum = NaN \/ monthNum = NaN \/ monthNum[1] < 1)

\* isNaN(yearNum) || isNaN(monthNum) || monthNum < 1 || monthNum > 12   negated
KeyInRange(yearNum, monthNum) ==
    ~(yearNum = NaN \/ monthNum = NaN \/ monthNum[1] < 1 \/ monthNum[1] > 12)

\* The forEach callback past its first guard: the entry pushed for monthKey,
\* or Undefined when the callback returns early.
MonthEntry(monthKey, monthData) ==
    LET sortedMonthData == sortMonthDataChronologically(monthData)
        firstPrice == sortedMonthData[1].price
        lastPrice  == sortedMonthData[Len(sortedMonthData)].price
        parts      == Split(monthKey, "-")
        yearNum    == parseInt(parts[1])
        monthNum   == parseInt(parts[2])
    IN  IF ~PricesUsable(firstPrice, lastPrice) THEN Undefined
        ELSE IF ~KeyInRange(yearNum, monthNum) THEN Undefined
        ELSE Some([month         |-> getMonthName(monthNum[1]),
                   year          |-> yearNum[1],
                   variation     |-> Variation(firstPrice, lastPrice),
                   firstDayPrice |-> firstPrice,
                   lastDayPrice  |-> lastPrice])

\* Mutant of MonthVariation: a month needs two records to be emitted.
MonthVariation_NeedsTwoRecords(monthKey, monthData) ==
    IF Len(monthData) < 2 THEN Undefined ELSE MonthEntry(monthKey, monthData)

\* The callback of the forEach over the sorted month keys.
\* if (!monthData || monthData.length === 0) return;
MonthVariation(monthKey, monthData) ==
    IF Len(monthData) = 0 THEN Undefined ELSE MonthEntry(monthKey, monthData)

RECURSIVE EmitAll(_, _)
EmitAll(keys, monthlyData) ==
    IF keys = <<>> THEN <<>>
    ELSE LET v == MonthVariation(keys[1], MapGet(monthlyData, keys[1]))
         IN  (IF v = Undefined THEN <<>> ELSE <<[key |-> keys[1], entry |-> v[1]]>>)
             \o EmitAll(Tail(keys), monthlyData)

\* Mutant of Emitted: the guard is the caller's length check, so a list of
\* one record is answered with the empty list.
Emitted_NeedsTwoRecords(d) ==
    IF Len(d) < 2 THEN <<>>
    ELSE LET monthlyData == groupDataByMonth(d)
         IN  EmitAll(SortKeys(MapKeys(monthlyData)), monthlyData)

\* The pushes of calculateMonthlyVariation, each with the key it came from.
\* if (!data || data.length === 0) return [];
Emitted(d) ==
    IF Len(d) = 0 THEN <<>>
    ELSE LET monthlyData == groupDataByMonth(d)
         IN  EmitAll(SortKeys(MapKeys(monthlyData)), monthlyData)

calculateMonthlyVariation(d) ==
    LET variations == Emitted(d)
    IN  [i \in 1..Len(variations) |-> variations[i].entry]

\* !!(data && data.length >= 2)
hasEnoughData(d) == Len(d) >= 2

----------------------------------------------------------------------------
(* financial.service.ts: filterDataByDateRange *)

\* monthMap[monthName] || 1
getMonthNumber(monthName) ==
    IF \E i \in 1..Len(monthNames) : monthNames[i] = monthName
    THEN CHOOSE i \in 1..Len(monthNames) : monthNames[i] = monthName
    ELSE 1

\* `${variation.year}-${String(getMonthNumber(variation.month)).padStart(2, '0')}-01`
ItemDate(variation) ==
    NumberToString(variation.year) \o <<"-">>
        \o PadStart2(NumberToString(getMonthNumber(variation.month))) \o <<"-", "0", "1">>

\* !s for an optional string: undefined, null or ''
Falsy(s) == s = Undefined \/ s[1] = <<>>

StrUndefined == <<"u", "n", "d", "e", "f", "i", "n", "e", "d">>

\* Mutant of isDateInRange: the end bound is exclusive (targetDate < end).
isDateInRange_ExclusiveEnd(date, start, end) ==
    IF Falsy(start) \/ Falsy(end) THEN TRUE
    ELSE LET t == DateTime(date)
             s == DateTime(start[1])
             e == DateTime(end[1])
         IN  /\ t /= NaN /\ s /= NaN /\ e /= NaN
             /\ t[1] >= s[1]
             /\ t[1] < e[1]

\* Mutant of isDateInRange: the strings are compared, not the Dates
\* (date >= startDate && date <= endDate).
isDateInRange_StringCompare(date, start, end) ==
    IF Falsy(start) \/ Falsy(end) THEN TRUE
    ELSE ~StrLess(date, start[1]) /\ ~StrLess(end[1], date)

\* targetDate >= start && targetDate <= end   (false when any side is Invalid Date)
isDateInRange(date, start, end) ==
    IF Falsy(start) \/ Falsy(end) THEN TRUE
    ELSE LET t == DateTime(date)
             s == DateTime(start[1])
             e == DateTime(end[1])
         IN  /\ t /= NaN /\ s /= NaN /\ e /= NaN
             /\ t[1] >= s[1]
             /\ t[1] <= e[1]

\* Mutant of filterDataByDateRange: the fallback to the unfiltered list is
\* missing.
filterDataByDateRange_NoFallback(d, start, end) ==
    IF Falsy(start) \/ Falsy(end) \/ start[1] = StrUndefined \/ end[1] = <<>>
    THEN d
    ELSE LET InRange(v) == isDateInRange(ItemDate(v), start, end)
         IN  SelectSeq(d, InRange)

\* if (!startDate || !endDate || startDate === 'undefined' || endDate === '')
\*   return data;  filter;  if (filtered.length === 0 && data.length > 0) return data;
filterDataByDateRange(d, start, end) ==
    IF Falsy(start) \/ Falsy(end) \/ start[1] = StrUndefined \/ end[1] = <<>>
    THEN d
    ELSE LET InRange(v) == isDateInRange(ItemDate(v), start, end)
             filtered == SelectSeq(d, InRange)
         IN  IF Len(filtered) = 0 /\ Len(d) > 0 THEN d ELSE filtered

----------------------------------------------------------------------------
(* financial.utils.ts: calculateVariationStats; calculateStatistics *)

RECURSIVE GCD(_, _)
GCD(a, b) == IF b = 0 THEN a ELSE GCD(b, a % b)

\* The number n / d (d > 0), in lowest terms.  The quotient is kept exact;
\* the rounding of the floating-point sum and division is not modelled.
Quotient(n, d) ==
    LET g == GCD(Abs(n), d)
    IN  [num |-> n \div g, den |-> d \div g]

\* v.variation || 0
VariationOrZero(v) == IF v.variation = 0 THEN 0 ELSE v.variation

\* values.reduce((sum, val) => sum + val, 0)
RECURSIVE ReduceSum(_)
ReduceSum(values) ==
    IF values = <<>> THEN 0 ELSE ReduceSum(SubSeq(values, 1, Len(values) - 1)) + values[Len(values)]

\* Math.max(...values), values not empty
RECURSIVE MathMax(_)
MathMax(values) ==
    IF Len(values) = 1 THEN values[1]
    ELSE LET m == MathMax(Tail(values))
         IN  IF values[1] > m THEN values[1] ELSE m

\* Math.min(...values), values not empty
RECURSIVE MathMin(_)
MathMin(values) ==
    IF Len(values) = 1 THEN values[1]
    ELSE LET m == MathMin(Tail(values))
         IN  IF values[1] < m THEN values[1] ELSE m

\* Mutant of IsPositive: a zero variation counts as positive (v >= 0).
IsPositive_IncludesZero(v) == v >= 0

IsPositive(v) == v > 0
IsNegative(v) == v < 0

\* Mutant of calculateVariationStats: the object returned for the empty
\* list carries an average of 1.
calculateVariationStats_EmptyAverageOne(variations) ==
    IF Len(variations) = 0
    THEN [average |-> Quotient(1, 1), max |-> 0, min |-> 0,
          positiveCount |-> 0, negativeCount |-> 0]
    ELSE LET values == [i \in 1..Len(variations) |-> VariationOrZero(variations[i])]
         IN  [average       |-> Quotient(ReduceSum(values), Len(values)),
              max           |-> MathMax(values),
              min           |-> MathMin(values),
              positiveCount |-> Len(SelectSeq(values, IsPositive)),
              negativeCount |-> Len(SelectSeq(values, IsNegative))]

\* if (variations.length === 0) return { average: 0, max: 0, min: 0, ... }
calculateVariationStats(variations) ==
    IF Len(variations) = 0
    THEN [average |-> Quotient(0, 1), max |-> 0, min |-> 0,
          positiveCount |-> 0, negativeCount |-> 0]
    ELSE LET values == [i \in 1..Len(variations) |-> VariationOrZero(variations[i])]
         IN  [average       |-> Quotient(ReduceSum(values), Len(values)),
              max           |-> MathMax(values),
              min           |-> MathMin(values),
              positiveCount |-> Len(SelectSeq(values, IsPositive)),
              negativeCount |-> Len(SelectSeq(values, IsNegative))]

\* { ...stats, totalMonths: variations.length }
calculateStatistics(variations) ==
    LET stats == calculateVariationStats(variations)
    IN  [average       |-> stats.average,
         max           |-> stats.max,
         min           |-> stats.min,
         positiveCount |-> stats.positiveCount,
         negativeCount |-> stats.negativeCount,
         totalMonths   |-> Len(variations)]

----------------------------------------------------------------------------
(* financial.utils.ts: getChartColors; financial.service.ts: createChartData *)

colors ==
    << [border |-> "rgb(59, 130, 246)", background |-> "rgba(59, 130, 246, 0.2)"],
       [border |-> "rgb(34, 197, 94)",  background |-> "rgba(34, 197, 94, 0.2)"],
       [border |-> "rgb(249, 115, 22)", background |-> "rgba(249, 115, 22, 0.2)"],
       [border |-> "rgb(168, 85, 247)", background |-> "rgba(168, 85, 247, 0.2)"],
       [border |-> "rgb(239, 68, 68)",  background |-> "rgba(239, 68, 68, 0.2)"],
       [border |-> "rgb(245, 158, 11)", background |-> "rgba(245, 158, 11, 0.2)"] >>

\* colors[index % colors.length]
getChartColors(index) == colors[(index % Len(colors)) + 1]

\* Mutant of Label: the year is left out.
Label_MonthOnly(v) == <<v.month>>

\* `${v.month} ${v.year}`: the month name, a space, the digits of the year.
Label(v) == <<v.month, " ">> \o NumberToString(v.year)

\* The colour argument is the number of data points: getChartColors(variations.length).
createChartData(variations, assetName) ==
    [labels   |-> [i \in 1..Len(variations) |-> Label(variations[i])],
     datasets |-> << [label           |-> assetName,
                      data            |-> [i \in 1..Len(variations) |-> variations[i].variation],
                      borderColor     |-> getChartColors(Len(variations)).border,
                      backgroundColor |-> getChartColors(Len(variations)).background,
                      fill            |-> TRUE] >>]

----------------------------------------------------------------------------
(* fintual.service.ts *)

assetIds == <<186, 187, 188, 15077>>

\* this.assetNames[assetId] || `Fondo ${assetId}`
\* A name is a sequence of text pieces, so that the generic name can carry
\* the digits of the id.
getAssetName(assetId) ==
    IF assetId = 186 THEN <<"Fondo Agresivo (Norris)">>
    ELSE IF assetId = 187 THEN <<"Fondo Moderado (Pit)">>
    ELSE IF assetId = 188 THEN <<"Fondo Conservador (Clooney)">>
    ELSE IF assetId = 15077 THEN <<"Fondo Muy Conservador (Streep)">>
    ELSE <<"Fondo ">> \o NumberToString(assetId)

----------------------------------------------------------------------------
(* Inputs *)

Y2023 == <<"2", "0", "2", "3">>
Y2024 == <<"2", "0", "2", "4">>
Ymd(y, m, d) == y \o <<"-">> \o m \o <<"-">> \o d

\* { date, price }
Flat(d, p) ==
    [kind |-> "object", dateType |-> "string",
     date |-> Some(d), price |-> Some(p), attributes |-> Undefined]
\* { date }
FlatNoPrice(d) ==
    [kind |-> "object", dateType |-> "string",
     date |-> Some(d), price |-> Undefined, attributes |-> Undefined]
\* { attributes: { date, price } }
Nested(d, p) ==
    [kind |-> "object", dateType |-> "string",
     date |-> Undefined, price |-> Undefined,
     attributes |-> Some([date |-> Some(d), price |-> Some(p)])]
\* { price }
NoDate(p) ==
    [kind |-> "object", dateType |-> "string",
     date |-> Undefined, price |-> Some(p), attributes |-> Undefined]
\* { date: <a number>, price }
NumberDate(d, p) ==
    [kind |-> "object", dateType |-> "number",
     date |-> Some(d), price |-> Some(p), attributes |-> Undefined]
\* null
NullRecord ==
    [kind |-> "null", dateType |-> "string",
     date |-> Undefined, price |-> Undefined, attributes |-> Undefined]

\* The example of the specification and of the README's formula.
ScenarioInput ==
    << Flat(Ymd(Y2023, <<"0", "1">>, <<"0", "5">>), 1000),
       Flat(Ymd(Y2023, <<"0", "1">>, <<"2", "8">>), 1050),
       Flat(Ymd(Y2023, <<"0", "2">>, <<"0", "3">>), 1050),
       Flat(Ymd(Y2023, <<"0", "2">>, <<"2", "5">>), 1029) >>

\* Records whose dates are in the expected YYYY-MM-DD format.
WellFormedRecords ==
    { Flat(Ymd(Y2023, <<"0", "1">>, <<"0", "5">>), 1000),
      Flat(Ymd(Y2023, <<"0", "1">>, <<"2", "8">>), 1050),
      Flat(Ymd(Y2023, <<"0", "2">>, <<"0", "3">>), 1050),
      Flat(Ymd(Y2023, <<"0", "2">>, <<"2", "5">>), 1029),
      Flat(Ymd(Y2023, <<"0", "2">>, <<"2", "8">>), 0),
      Nested(Ymd(Y2024, <<"0", "1">>, <<"1", "0">>), 1029) }

\* Records the grouper accepts although their dates are not YYYY-MM-DD,
\* next to one that is.
IrregularRecords ==
    { Flat(Ymd(Y2023, <<"1">>, <<"2", "0">>), 1000),
      Flat(Ymd(Y2023, <<"1">>, <<"0", "5">>), 1050),
      FlatNoPrice(Ymd(Y2023, <<"1">>, <<"0", "3">>)),
      Flat(Ymd(Y2023, <<"0", "2">>, <<"0", "3">>), 1050),
      Flat(Ymd(Y2023, <<"1", "3">>, <<"0", "1">>), 1000),
      Flat(Ymd(<<"x", "x", "x", "x">>, <<"0", "1">>, <<"0", "5">>), 1000) }

\* Elements the grouper has to reject, next to two records of one month.
MalformedRecords ==
    { NullRecord,
      NoDate(1000),
      NumberDate(<<"2", "0", "2", "3", "0", "1", "0", "5">>, 1000),
      Flat(<<"2", "0", "2", "3", "0", "1", "0", "5">>, 1000),
      Flat(Ymd(Y2023, <<"0", "1">>, <<"0", "5">>), 1000),
      Flat(Ymd(Y2023, <<"0", "1">>, <<"2", "8">>), 1050) }

\* Records of January 2023 whose dates spell the month as "1" and as "01".
TwoSpellingsRecords ==
    { Flat(Ymd(Y2023, <<"1">>, <<"0", "5">>), 1000),
      Flat(Ymd(Y2023, <<"0", "1">>, <<"2", "0">>), 1050),
      Flat(Ymd(Y2023, <<"0", "1">>, <<"2", "8">>), 1029) }

SeqsUpTo(S, n) == UNION {[1..k -> S] : k \in 0..n}

Inputs == SeqsUpTo(WellFormedRecords, MaxLen) \cup SeqsUpTo(IrregularRecords, MaxLen)
              \cup SeqsUpTo(MalformedRecords, MaxLen)
              \cup SeqsUpTo(TwoSpellingsRecords, MaxLen) \cup {ScenarioInput}

D(s) == Some(s)
StartDates ==
    { Undefined, D(<<>>), D(StrUndefined),
      D(Ymd(Y2023, <<"0", "1">>, <<"0", "1">>)),
      D(Ymd(Y2023, <<"0", "2">>, <<"0", "1">>)),
      D(Ymd(Y2023, <<"0", "2">>, <<"0", "2">>)) }
EndDates ==
    { Undefined, D(<<>>), D(StrUndefined),
      D(Ymd(Y2023, <<"0", "1">>, <<"3", "1">>)),
      D(Ymd(Y2023, <<"0", "2">>, <<"0", "1">>)),
      D(Ymd(Y2024, <<"1", "2">>, <<"3", "1">>)) }

----------------------------------------------------------------------------
(* The pipeline as a state machine *)

\* Moments at which the component may be built and started. year, month
\* and day are the date toISOString() prints for the moment (its UTC date);
\* midnight is the date it prints for 00:00 local time of the moment's local
\* day: the same day at or west of Greenwich, the day before east of it. The
\* default range of the first moment holds the months of the responses, that
\* of the second holds none.
Todays ==
    { [year |-> 2024, month |-> <<"1", "2">>, day |-> <<"3", "1">>,
       midnight |-> [month |-> <<"1", "2">>, day |-> <<"3", "1">>]],
      [year |-> 2031, month |-> <<"0", "6">>, day |-> <<"1", "5">>,
       midnight |-> [month |-> <<"0", "6">>, day |-> <<"1", "4">>]] }

\* getPresetDateRanges() at the moment now: three ranges that end today and
\* start at local midnight one, two and five years back, and three with
\* fixed starts.
getPresetDateRanges(now) ==
    LET today == Ymd(NumberToString(now.year), now.month, now.day)
        yearsAgo(n) == Ymd(NumberToString(now.year - n), now.midnight.month, now.midnight.day)
    IN  << [label |-> "Último año",        startDate |-> yearsAgo(1), endDate |-> today],
           [label |-> "Últimos 2 años",    startDate |-> yearsAgo(2), endDate |-> today],
           [label |-> "Últimos 5 años",    startDate |-> yearsAgo(5), endDate |-> today],
           [label |-> "Todo el historial",
            startDate |-> Ymd(<<"2", "0", "2", "0">>, <<"0", "1">>, <<"0", "1">>),
            endDate |-> today],
           [label |-> "2023",
            startDate |-> Ymd(Y2023, <<"0", "1">>, <<"0", "1">>),
            endDate |-> Ymd(Y2023, <<"1", "2">>, <<"3", "1">>)],
           [label |-> "2024",
            startDate |-> Ymd(<<"2", "0", "2", "4">>, <<"0", "1">>, <<"0", "1">>),
            endDate |-> Ymd(<<"2", "0", "2", "4">>, <<"1", "2">>, <<"3", "1">>)] >>

\* The component's own fields as its constructor leaves them at the moment
\* now.
ConstructedOn(now) ==
    /\ selectedAssetId = 186
    /\ appState = "loading"
    /\ errorMessage = ""
    /\ requests = <<>>
    /\ loadedFrom = Undefined
    /\ lifecycle = "constructed"
    /\ presetDateRanges = getPresetDateRanges(now)
    /\ answer = Undefined

\* The pipeline specifications call the services without the component:
\* its fields stay as built at the first of the moments.
Constructed ==
    \E now \in Todays : now.year = 2024 /\ ConstructedOn(now)

\* Some date of the list is outside the ECMAScript format and readable by a
\* lenient engine: only then do the two kinds of engine differ.
EngineMatters(d) ==
    \E i \in 1..Len(d) :
        /\ d[i].kind = "object" /\ d[i].dateType = "string"
        /\ RawDate(d[i]) /= Undefined
        /\ ~IsISODate(RawDate(d[i])[1])
        /\ IsLegacyDate(RawDate(d[i])[1])

\* Both kinds of engine are explored for every list on which they differ;
\* for the other lists one engine stands for both.
Init ==
    /\ data \in Inputs
    /\ lenientDates \in (IF EngineMatters(data) THEN BOOLEAN ELSE {TRUE})
    /\ given = data
    /\ monthlyVariations = <<>>
    /\ emittedKeys = <<>>
    /\ startDate = Undefined
    /\ endDate = Undefined
    /\ filteredVariations = <<>>
    /\ statistics = Undefined
    /\ chartData = Undefined
    /\ second = Undefined
    /\ pc = "input"
    /\ Constructed

\* Mutant of CallerListAfter: the grouper normalises each record it accepts
\* in place (day.price = price || 0) instead of pushing a copy.
CallerListAfter_NormalisedInPlace(d) ==
    [i \in 1..Len(d) |->
        IF d[i].kind = "object" /\ d[i].dateType = "string" /\ RawDate(d[i]) /= Undefined
        THEN [d[i] EXCEPT !.price = Some(PriceOrZero(RawPrice(d[i])))]
        ELSE d[i]]

\* The caller's list once calculateMonthlyVariation(d) has returned.  Every
\* write of the call goes to an object the call allocated: the Map, its
\* bucket arrays, the { date, price } copies pushed to them and the result
\* list; the in-place sort reorders a bucket array, never the list passed in.
CallerListAfter(d) == d

\* A call of calculateMonthlyVariation(data): it returns, or the TypeError of
\* groupDataByMonth propagates to the caller and nothing is returned.
CalculateMonthlyVariation ==
    /\ pc = "input"
    /\ IF GroupRaises(data)
       THEN /\ pc' = "raised"
            /\ UNCHANGED <<data, monthlyVariations, emittedKeys>>
       ELSE /\ monthlyVariations' = calculateMonthlyVariation(data)
            /\ emittedKeys' = LET pushes == Emitted(data)
                              IN  [i \in 1..Len(pushes) |-> pushes[i].key]
            /\ data' = CallerListAfter(data)
            /\ pc' = "calculated"
    /\ UNCHANGED <<lenientDates, given, startDate, endDate, filteredVariations,
                   statistics, chartData, second>>
    /\ UNCHANGED dashVars

\* A call of filterDataByDateRange(monthlyVariations, s, e) with bounds of
\* the set ranges.
FilterWith(ranges) ==
    /\ pc = "calculated"
    /\ \E r \in ranges :
          /\ startDate' = r[1]
          /\ endDate' = r[2]
          /\ filteredVariations' = filterDataByDateRange(monthlyVariations, r[1], r[2])
    /\ pc' = "filtered"
    /\ UNCHANGED <<lenientDates, data, given, monthlyVariations, emittedKeys,
                   statistics, chartData, second>>
    /\ UNCHANGED dashVars

\* A bound that is missing, empty or the text 'undefined'.
NoBounds == {Undefined, D(<<>>), D(StrUndefined)}

\* The pairs of bounds tried: every pair of two dates; each missing kind of
\* start with an end that would cut entries off; each missing kind of end
\* with a start that would; each missing kind on both sides.
FilterRanges ==
    { r \in StartDates \X EndDates :
        \/ r[1] \notin NoBounds /\ r[2] \notin NoBounds
        \/ r[1] \in NoBounds /\ r[2] = D(Ymd(Y2023, <<"0", "1">>, <<"3", "1">>))
        \/ r[1] = D(Ymd(Y2023, <<"0", "2">>, <<"0", "2">>)) /\ r[2] \in NoBounds
        \/ r[1] \in NoBounds /\ r[2] = r[1] }

FilterDataByDateRange == FilterWith(FilterRanges)

Next == CalculateMonthlyVariation \/ FilterDataByDateRange

Spec == Init /\ [][Next]_vars

----------------------------------------------------------------------------
(* The statistics and the chart of a variation list *)

\* An entry as calculateMonthlyVariation pushes it.
Entry(monthNum, yearNum, firstPrice, lastPrice) ==
    [month         |-> getMonthName(monthNum),
     year          |-> yearNum,
     variation     |-> Variation(firstPrice, lastPrice),
     firstDayPrice |-> firstPrice,
     lastDayPrice  |-> lastPrice]

\* Variations 5.00, -2.00, 0.00, 0.10 and -2.00 again.
SampleVariations ==
    { Entry(1, 2023, 1000, 1050),
      Entry(2, 2023, 1050, 1029),
      Entry(3, 2023, 1000, 1000),
      Entry(4, 2023, 1000, 1001),
      Entry(12, 2024, 1050, 1029) }

\* A list longer than the palette.
SevenMonths ==
    << Entry(1, 2023, 1000, 1050), Entry(2, 2023, 1050, 1029), Entry(3, 2023, 1000, 1000),
       Entry(4, 2023, 1000, 1001), Entry(5, 2023, 1001, 1050), Entry(6, 2023, 1050, 1000),
       Entry(7, 2023, 1000, 1029) >>

VariationLists == SeqsUpTo(SampleVariations, MaxLen) \cup {SevenMonths}

InitReport ==
    /\ lenientDates = TRUE
    /\ data = <<>>
    /\ given = <<>>
    /\ monthlyVariations = <<>>
    /\ emittedKeys = <<>>
    /\ startDate = Undefined
    /\ endDate = Undefined
    /\ filteredVariations \in VariationLists
    /\ statistics = Undefined
    /\ chartData = Undefined
    /\ second = Undefined
    /\ pc = "filtered"
    /\ Constructed

\* A call of calculateStatistics(filteredVariations).
CalculateStatistics ==
    /\ pc = "filtered"
    /\ statistics' = Some(calculateStatistics(filteredVariations))
    /\ pc' = "statistics"
    /\ UNCHANGED <<lenientDates, data, given, monthlyVariations, emittedKeys,
                   startDate, endDate, filteredVariations, chartData, second>>
    /\ UNCHANGED dashVars

\* A call of createChartData(filteredVariations, getAssetName(id)) for a
\* fund of the set ids.
CreateChartDataFor(ids) ==
    /\ pc = "statistics"
    /\ \E id \in ids :
          chartData' = Some(createChartData(filteredVariations, getAssetName(id)))
    /\ pc' = "charted"
    /\ UNCHANGED <<lenientDates, data, given, monthlyVariations, emittedKeys,
                   startDate, endDate, filteredVariations, statistics, second>>
    /\ UNCHANGED dashVars

CreateChartData == CreateChartDataFor(Range(assetIds))

NextReport == CalculateStatistics \/ CreateChartData

SpecReport == InitReport /\ [][NextReport]_vars

----------------------------------------------------------------------------
(* The whole pipeline, run twice on the caller's list *)

\* No filter, a range that drops January 2023, a range no entry is in.
PipelineRanges ==
    { <<Undefined, Undefined>>,
      <<D(Ymd(Y2023, <<"0", "2">>, <<"0", "1">>)), D(Ymd(Y2024, <<"1", "2">>, <<"3", "1">>))>>,
      <<D(Ymd(Y2023, <<"0", "2">>, <<"0", "2">>)), D(Ymd(Y2023, <<"0", "1">>, <<"3", "1">>))>> }

PipelineFilter == FilterWith(PipelineRanges)

PipelineChart == CreateChartDataFor({assetIds[1]})

\* The four calls again, on the list as the first run left it and with the
\* same bounds and fund name.
RunAgain ==
    /\ pc = "charted"
    /\ ~GroupRaises(data)
    /\ \E variations \in {calculateMonthlyVariation(data)} :
       \E filtered \in {filterDataByDateRange(variations, startDate, endDate)} :
          second' = Some([monthlyVariations  |-> variations,
                          filteredVariations |-> filtered,
                          statistics         |-> calculateStatistics(filtered),
                          chartData          |-> createChartData(filtered,
                                                    chartData[1].datasets[1].label)])
    /\ data' = CallerListAfter(data)
    /\ pc' = "rerun"
    /\ UNCHANGED <<lenientDates, given, monthlyVariations, emittedKeys, startDate, endDate,
                   filteredVariations, statistics, chartData>>
    /\ UNCHANGED dashVars

NextPipeline ==
    \/ CalculateMonthlyVariation
    \/ PipelineFilter
    \/ CalculateStatistics
    \/ PipelineChart
    \/ RunAgain

SpecPipeline == Init /\ [][NextPipeline]_vars

----------------------------------------------------------------------------
(* dashboard.component.ts: the component App *)

\* Most HTTP requests the model keeps in flight at once.
MaxPending == 2

\* getDefaultDateRange() on the day now: the same day five years earlier
\* and the day itself, as YYYY-MM-DD.
getDefaultDateRange(now) ==
    [startDate |-> Ymd(NumberToString(now.year - 5), now.month, now.day),
     endDate   |-> Ymd(NumberToString(now.year), now.month, now.day)]

\* What the next callback may be called with for GET /real_assets/{id}/days:
\* a body with a data list (two months; one month whose last price is 0; a
\* single record; a list with a null element; a record without a date next
\* to a usable one; no record), a body without a data list, or no body at
\* all (null).
ResponseBodies ==
    { [kind |-> "object", hasData |-> TRUE, data |-> ScenarioInput],
      [kind |-> "object", hasData |-> TRUE,
       data |-> << Flat(Ymd(Y2023, <<"0", "2">>, <<"0", "3">>), 1050),
                   Flat(Ymd(Y2023, <<"0", "2">>, <<"2", "8">>), 0) >>],
      [kind |-> "object", hasData |-> TRUE,
       data |-> << Flat(Ymd(Y2023, <<"0", "1">>, <<"0", "5">>), 1000) >>],
      [kind |-> "object", hasData |-> TRUE,
       data |-> << NullRecord, Flat(Ymd(Y2023, <<"0", "1">>, <<"0", "5">>), 1000) >>],
      [kind |-> "object", hasData |-> TRUE,
       data |-> << NoDate(1000), Flat(Ymd(Y2023, <<"0", "1">>, <<"0", "5">>), 1000) >>],
      [kind |-> "object", hasData |-> TRUE, data |-> <<>>],
      [kind |-> "object", hasData |-> FALSE, data |-> <<>>],
      [kind |-> "null", hasData |-> FALSE, data |-> <<>>] }

\* The signals statistics and chartData as declared.
ZeroStatistics ==
    [average |-> Quotient(0, 1), max |-> 0, min |-> 0,
     positiveCount |-> 0, negativeCount |-> 0, totalMonths |-> 0]

EmptyChart == [labels |-> <<>>, datasets |-> <<>>]

\* The dates of the response bodies are all in the ECMAScript format.
InitDash ==
    /\ lenientDates = TRUE
    /\ data = <<>>
    /\ given = <<>>
    /\ monthlyVariations = <<>>
    /\ emittedKeys = <<>>
    /\ startDate = Some(<<>>)
    /\ endDate = Some(<<>>)
    /\ filteredVariations = <<>>
    /\ statistics = Some(ZeroStatistics)
    /\ chartData = Some(EmptyChart)
    /\ second = Undefined
    /\ pc = "dashboard"
    /\ \E now \in Todays : ConstructedOn(now)

\* updateChartData(): the chart of the service with the line options added
\* to each dataset.
ChartConfiguration(variations, assetId) ==
    LET chart == createChartData(variations, getAssetName(assetId))
    IN  [labels   |-> chart.labels,
         datasets |-> [i \in 1..Len(chart.datasets) |->
                          [label            |-> chart.datasets[i].label,
                           data             |-> chart.datasets[i].data,
                           borderColor      |-> chart.datasets[i].borderColor,
                           backgroundColor  |-> chart.datasets[i].backgroundColor,
                           fill             |-> chart.datasets[i].fill,
                           tension          |-> "0.4",
                           pointRadius      |-> 4,
                           pointHoverRadius |-> 6]]]

ApplyDateFilter_StaleStatistics(variations, start, end, assetId) ==
    \E filtered \in {filterDataByDateRange(variations, start, end)} :
        /\ filteredVariations' = filtered
        /\ statistics' = statistics
        /\ chartData' = Some(ChartConfiguration(filtered, assetId))

\* applyDateFilter() with the variations, bounds and fund given: the three
\* signals it sets.
ApplyDateFilter(variations, start, end, assetId) ==
    \E filtered \in {filterDataByDateRange(variations, start, end)} :
        /\ filteredVariations' = filtered
        /\ statistics' = Some(calculateStatistics(filtered))
        /\ chartData' = Some(ChartConfiguration(filtered, assetId))

\* handleError(message)
HandleError(message) ==
    /\ errorMessage' = message
    /\ appState' = "error"

\* loadAssetData() up to the subscribe call: the request for the selected
\* fund is sent; nothing is done about the requests already in flight and
\* the Subscription returned by subscribe() is dropped.
LoadAssetData(assetId) ==
    /\ appState' = "loading"
    /\ errorMessage' = ""
    /\ requests' = Append(requests, assetId)

\* ngOnInit(): setDefaultDateRange(), loadAssetData(). The component is
\* started at the moment it was built.
NgOnInit ==
    /\ lifecycle = "constructed"
    /\ pc = "dashboard"
    /\ \E now \in Todays :
          /\ presetDateRanges = getPresetDateRanges(now)
          /\ startDate' = Some(getDefaultDateRange(now).startDate)
          /\ endDate' = Some(getDefaultDateRange(now).endDate)
    /\ LoadAssetData(selectedAssetId)
    /\ lifecycle' = "active"
    /\ UNCHANGED <<lenientDates, data, given, monthlyVariations, emittedKeys,
                   filteredVariations, statistics, chartData, second,
                   selectedAssetId, loadedFrom, presetDateRanges, pc, answer>>

\* The user picks another fund, one of ids: the selector writes
\* selectedAssetId and its change event calls onAssetChange(), which calls
\* loadAssetData().
OnAssetChangeTo(ids) ==
    /\ lifecycle = "active"
    /\ Len(requests) < MaxPending
    /\ \E id \in ids :
          /\ id /= selectedAssetId
          /\ selectedAssetId' = id
          /\ LoadAssetData(id)
    /\ UNCHANGED pc
    /\ answer' = Undefined
    /\ UNCHANGED <<lenientDates, data, given, monthlyVariations, emittedKeys,
                   startDate, endDate, filteredVariations, statistics, chartData,
                   second, loadedFrom, lifecycle, presetDateRanges>>

OnAssetChange == OnAssetChangeTo(Range(assetIds))

\* retryLoad(): loadAssetData()
RetryLoad ==
    /\ lifecycle = "active"
    /\ Len(requests) < MaxPending
    /\ LoadAssetData(selectedAssetId)
    /\ UNCHANGED pc
    /\ answer' = Undefined
    /\ UNCHANGED <<lenientDates, data, given, monthlyVariations, emittedKeys,
                   startDate, endDate, filteredVariations, statistics, chartData,
                   second, selectedAssetId, loadedFrom, lifecycle, presetDateRanges>>

\* What the user may leave in a date field: nothing or a day.
TypedDates == { <<>>, Ymd(Y2023, <<"0", "2">>, <<"0", "1">>) }

\* The user edits one of the two date fields: the field writes its signal
\* and its change event calls onDateFilterChange(), which calls
\* applyDateFilter().
OnDateFilterChange ==
    /\ lifecycle = "active"
    /\ \E field \in {"startDate", "endDate"}, value \in TypedDates :
          \E start \in {IF field = "startDate" THEN Some(value) ELSE startDate},
             end \in {IF field = "endDate" THEN Some(value) ELSE endDate} :
              /\ startDate' = start
              /\ endDate' = end
              /\ ApplyDateFilter(monthlyVariations, start, end, selectedAssetId)
    /\ UNCHANGED pc
    /\ answer' = Undefined
    /\ UNCHANGED <<lenientDates, data, given, monthlyVariations, emittedKeys, second,
                   selectedAssetId, appState, errorMessage, requests, loadedFrom,
                   lifecycle, presetDateRanges>>

\* The indexes applyPresetRange is called with: that of the year 2023 and
\* the two next to the ends of the list.
PresetIndexes == {-1, 4, 6}

\* applyPresetRange(presetIndex)
ApplyPresetRange ==
    /\ lifecycle = "active"
    /\ \E presetIndex \in PresetIndexes :
          IF presetIndex >= 0 /\ presetIndex < Len(presetDateRanges)
          THEN \E range \in {presetDateRanges[presetIndex + 1]} :
                   /\ startDate' = Some(range.startDate)
                   /\ endDate' = Some(range.endDate)
                   /\ ApplyDateFilter(monthlyVariations, Some(range.startDate),
                                      Some(range.endDate), selectedAssetId)
          ELSE UNCHANGED <<startDate, endDate, filteredVariations, statistics,
                          chartData>>
    /\ answer' = Undefined
    /\ UNCHANGED <<lenientDates, data, given, monthlyVariations, emittedKeys, second, pc,
                   selectedAssetId, appState, errorMessage, requests, loadedFrom,
                   lifecycle, presetDateRanges>>

\* ngOnDestroy(): unsubscribes every element of the array subscriptions,
\* which is empty at all times, since nothing ever adds to it: the requests
\* in flight keep their callbacks.
NgOnDestroy ==
    /\ lifecycle = "active"
    /\ lifecycle' = "destroyed"
    /\ UNCHANGED pc
    /\ answer' = Undefined
    /\ UNCHANGED <<lenientDates, data, given, monthlyVariations, emittedKeys,
                   startDate, endDate, filteredVariations, statistics, chartData,
                   second, selectedAssetId, appState, errorMessage, requests,
                   loadedFrom, presetDateRanges>>

\* The requests in flight without the i-th one.
Answered(i) == SubSeq(requests, 1, i - 1) \o SubSeq(requests, i + 1, Len(requests))

\* The next callback of a request in flight, called with one of bodies.
\* Without a body the read of response.data in its first statements raises
\* a TypeError, which leaves the callback and reaches no handler of the
\* component.
ResponseNextWith(bodies) ==
    /\ \E i \in 1..Len(requests), body \in bodies :
          /\ requests' = Answered(i)
          /\ answer' = Some(body)
          /\ IF body.kind = "null"
             THEN UNCHANGED <<appState, errorMessage, monthlyVariations,
                              filteredVariations, statistics, chartData, loadedFrom>>
             ELSE IF ~body.hasData
             THEN /\ HandleError("Respuesta inválida de la API")
                  /\ UNCHANGED <<monthlyVariations, filteredVariations, statistics,
                                 chartData, loadedFrom>>
             ELSE IF ~hasEnoughData(body.data)
             THEN /\ HandleError("Datos insuficientes para análisis")
                  /\ UNCHANGED <<monthlyVariations, filteredVariations, statistics,
                                 chartData, loadedFrom>>
             ELSE IF GroupRaises(body.data)
             THEN /\ HandleError("Error al procesar los datos financieros")
                  /\ UNCHANGED <<monthlyVariations, filteredVariations, statistics,
                                 chartData, loadedFrom>>
             ELSE \E variations \in {calculateMonthlyVariation(body.data)} :
                      /\ monthlyVariations' = variations
                      /\ ApplyDateFilter(variations, startDate, endDate, selectedAssetId)
                      /\ appState' = IF Len(variations) > 0 THEN "loaded" ELSE "empty"
                      /\ loadedFrom' = Some(requests[i])
                      /\ UNCHANGED errorMessage
    /\ UNCHANGED pc
    /\ UNCHANGED <<lenientDates, data, given, emittedKeys, startDate, endDate,
                   second, selectedAssetId, lifecycle, presetDateRanges>>

ResponseNext == ResponseNextWith(ResponseBodies)

\* The request failed (no connection, status 404 or 500).
Failure == [kind |-> "failure", hasData |-> FALSE, data |-> <<>>]

\* The error callback of a request in flight.
ResponseError ==
    /\ \E i \in 1..Len(requests) : requests' = Answered(i)
    /\ HandleError("Error al cargar los datos desde la API")
    /\ UNCHANGED pc
    /\ answer' = Some(Failure)
    /\ UNCHANGED <<lenientDates, data, given, monthlyVariations, emittedKeys,
                   startDate, endDate, filteredVariations, statistics, chartData,
                   second, selectedAssetId, loadedFrom, lifecycle, presetDateRanges>>

\* Loading: the user changes the fund and retries while the requests are
\* answered in any order, before and after the component is destroyed.
NextDash ==
    \/ NgOnInit
    \/ OnAssetChange
    \/ RetryLoad
    \/ NgOnDestroy
    \/ ResponseNext
    \/ ResponseError

SpecDash == InitDash /\ [][NextDash]_vars

\* Filtering: the user also edits the date fields and applies quick ranges;
\* the funds are the first two and the answers are a list of two months, a
\* list of a month without variation, and a body without a list.
FilterAssetChange == OnAssetChangeTo({assetIds[1], assetIds[2]})

FilterBodies ==
    {body \in ResponseBodies :
        \/ ~body.hasData /\ body.kind = "object"
        \/ body.hasData /\ Len(body.data) >= 2 /\ ~GroupRaises(body.data)
                        /\ \A i \in 1..Len(body.data) : RawDate(body.data[i]) /= Undefined}

FilterResponseNext == ResponseNextWith(FilterBodies)

NextFilter ==
    \/ NgOnInit
    \/ FilterAssetChange
    \/ RetryLoad
    \/ OnDateFilterChange
    \/ ApplyPresetRange
    \/ FilterResponseNext
    \/ ResponseError

SpecFilter == InitDash /\ [][NextFilter]_vars

----------------------------------------------------------------------------
(* Vocabulary of the properties: the months of an input list read from the *)
(* records themselves, and the calendar order of their dates.              *)

\* The record has a string date with at least two dash-separated components.
IsAccepted(day) ==
    /\ day.kind = "object"
    /\ day.dateType = "string"
    /\ RawDate(day) /= Undefined
    /\ RawDate(day)[1] /= <<>>
    /\ Len(Split(RawDate(day)[1], "-")) >= 2

KeyOfDay(day) == MonthKey(Split(RawDate(day)[1], "-"))

\* The canonical (date, price) pair of an accepted record.
Canon(day) == [date |-> RawDate(day)[1], price |-> PriceOrZero(RawPrice(day))]

KeysOf(d) == {KeyOfDay(d[i]) : i \in {j \in 1..Len(d) : IsAccepted(d[j])}}

\* The records of month key k, in input order.
RecordsOfKey(d, k) ==
    LET InMonth(day) == IsAccepted(day) /\ KeyOfDay(day) = k
        sel == SelectSeq(d, InMonth)
    IN  [i \in 1..Len(sel) |-> Canon(sel[i])]

\* Year, month and day of the date are written in digits.
CalReadable(s) ==
    LET p == Split(s, "-")
    IN  Len(p) = 3 /\ \A i \in 1..3 : AllDigits(p[i])

\* The calendar day the date names, as one number.
CalNum(s) ==
    LET p == Split(s, "-")
    IN  (DigitsValue(p[1]) * 100 + DigitsValue(p[2])) * 100 + DigitsValue(p[3])

AllCalReadable(recs) == \A i \in 1..Len(recs) : CalReadable(recs[i].date)
AllISODates(recs) == \A i \in 1..Len(recs) : IsISODate(recs[i].date) /\ CalReadable(recs[i].date)

\* The record with the minimum date, the first of them in input order.
EarliestRecord(recs) ==
    recs[CHOOSE i \in 1..Len(recs) :
            /\ \A j \in 1..Len(recs) : CalNum(recs[i].date) <= CalNum(recs[j].date)
            /\ \A j \in 1..(i - 1) : CalNum(recs[j].date) > CalNum(recs[i].date)]

\* The record with the maximum date, the last of them in input order.
LatestRecord(recs) ==
    recs[CHOOSE i \in 1..Len(recs) :
            /\ \A j \in 1..Len(recs) : CalNum(recs[i].date) >= CalNum(recs[j].date)
            /\ \A j \in (i + 1)..Len(recs) : CalNum(recs[j].date) < CalNum(recs[i].date)]

\* The key has a four-digit year and a two-digit month.
PaddedKey(k) ==
    LET p == Split(k, "-")
    IN  Len(p[1]) = 4 /\ AllDigits(p[1]) /\ Len(p[2]) = 2 /\ AllDigits(p[2])

\* (year, month number) of a is not after that of b.
YearMonthLeq(a, b) ==
    \/ a.year < b.year
    \/ a.year = b.year /\ getMonthNumber(a.month) <= getMonthNumber(b.month)

SortedByYearMonth(vs) ==
    \A i \in 1..Len(vs) : \A j \in (i + 1)..Len(vs) : YearMonthLeq(vs[i], vs[j])

\* calculateMonthlyVariation has just returned (the filter leaves its input
\* and output untouched).
Calculated == pc = "calculated"

----------------------------------------------------------------------------
(* C1 *)

\* C1 (as claimed): for every non-empty input list the output of
\* calculateMonthlyVariation is sorted ascending by (year, month number).
C1_SortedForEveryInput ==
    (Calculated /\ Len(data) > 0) => SortedByYearMonth(monthlyVariations)

\* C1 (amended): for every non-empty input list whose month keys all have a
\* four-digit year and a two-digit zero-padded month, the output is sorted
\* ascending by (year, month number).
C1_SortedForPaddedKeys ==
    (Calculated /\ Len(data) > 0 /\ \A k \in KeysOf(data) : PaddedKey(k))
        => SortedByYearMonth(monthlyVariations)

\* C1 witness: padded keys, two months emitted, and the input lists the later
\* month first.
C1_Witness ==
    /\ Calculated
    /\ \A k \in KeysOf(data) : PaddedKey(k)
    /\ Len(monthlyVariations) >= 2
    /\ IsAccepted(data[1]) /\ IsAccepted(data[Len(data)])
    /\ KeyOfDay(data[1]) = emittedKeys[Len(emittedKeys)]
    /\ KeyOfDay(data[Len(data)]) = emittedKeys[1]

----------------------------------------------------------------------------
(* C2 *)

\* C2: for every emitted MonthlyVariation, firstDayPrice is non-zero and is
\* the price of the record with the minimum date among the month's records
\* (the first such record in input order), whatever the input order.
C2_FirstPriceIsEarliest ==
    Calculated =>
        \A i \in 1..Len(monthlyVariations) :
            LET recs == RecordsOfKey(data, emittedKeys[i])
            IN  /\ monthlyVariations[i].firstDayPrice /= 0
                /\ AllCalReadable(recs) =>
                      monthlyVariations[i].firstDayPrice = EarliestRecord(recs).price

----------------------------------------------------------------------------
(* C3 *)

\* n hundredths is ((lastPrice - firstPrice) / firstPrice) * 100 rounded to
\* two decimals: no multiple of 0.01 is nearer.
RoundedPercent(n, firstPrice, lastPrice) ==
    2 * Abs(n * firstPrice - (lastPrice - firstPrice) * 10000) <= Abs(firstPrice)

ScenarioOutput ==
    << [month |-> "Ene", year |-> 2023, variation |-> 500,
        firstDayPrice |-> 1000, lastDayPrice |-> 1050],
       [month |-> "Feb", year |-> 2023, variation |-> -200,
        firstDayPrice |-> 1050, lastDayPrice |-> 1029] >>

\* C3: every emitted entry carries the prices of the earliest-date and the
\* latest-date record of its month and variation = ((last - first) / first)
\* * 100 rounded to two decimals; the example input yields exactly
\* [Ene 2023 5.00 (1000, 1050), Feb 2023 -2.00 (1050, 1029)].
C3_VariationOfEarliestAndLatest ==
    Calculated =>
        /\ \A i \in 1..Len(monthlyVariations) :
              LET e    == monthlyVariations[i]
                  recs == RecordsOfKey(data, emittedKeys[i])
              IN  /\ AllCalReadable(recs) =>
                        /\ e.firstDayPrice = EarliestRecord(recs).price
                        /\ e.lastDayPrice = LatestRecord(recs).price
                  /\ RoundedPercent(e.variation, e.firstDayPrice, e.lastDayPrice)
        /\ data = ScenarioInput => monthlyVariations = ScenarioOutput

----------------------------------------------------------------------------
(* C4 *)

EntriesOfKey(k) == {i \in 1..Len(emittedKeys) : emittedKeys[i] = k}

\* C4 (as claimed): every month key with at least one valid record and a
\* non-zero earliest-date price gets exactly one MonthlyVariation.
C4_EmittedForNonZeroFirstPrice ==
    Calculated =>
        \A k \in KeysOf(data) :
            LET recs == RecordsOfKey(data, k)
            IN  (AllISODates(recs) /\ EarliestRecord(recs).price /= 0)
                    => Cardinality(EntriesOfKey(k)) = 1

\* C4 (amended): every month key whose records are valid (YYYY-MM-DD) and
\* whose earliest-date price and latest-date price are both non-zero gets
\* exactly one MonthlyVariation.
C4_EmittedForNonZeroFirstAndLastPrice ==
    Calculated =>
        \A k \in KeysOf(data) :
            LET recs == RecordsOfKey(data, k)
            IN  (/\ AllISODates(recs)
                 /\ EarliestRecord(recs).price /= 0
                 /\ LatestRecord(recs).price /= 0)
                    => Cardinality(EntriesOfKey(k)) = 1

\* C4 witness: a month of two valid records with non-zero prices, listed
\* latest first, has been emitted.
C4_Witness ==
    /\ Calculated
    /\ \E k \in KeysOf(data) :
          LET recs == RecordsOfKey(data, k)
          IN  /\ Len(recs) >= 2
              /\ AllISODates(recs)
              /\ CalNum(recs[1].date) > CalNum(recs[Len(recs)].date)
              /\ EarliestRecord(recs).price /= 0
              /\ LatestRecord(recs).price /= 0
              /\ k \in Range(emittedKeys)

----------------------------------------------------------------------------
(* C5, C6, C7 *)

\* The bound is a YYYY-MM-DD date.
BoundIsDate(b) == b /= Undefined /\ IsISODate(b[1]) /\ CalReadable(b[1])

\* The first day of the entry's month, as CalNum counts days.
FirstOfMonthNum(v) == (v.year * 100 + getMonthNumber(v.month)) * 100 + 1

\* start <= first-of-month <= end, for bounds that are dates.
InRangeCal(v, start, end) ==
    /\ BoundIsDate(start) /\ BoundIsDate(end)
    /\ CalNum(start[1]) <= FirstOfMonthNum(v)
    /\ FirstOfMonthNum(v) <= CalNum(end[1])

Filtered == pc = "filtered"

\* C5: filterDataByDateRange never returns an empty list for a non-empty
\* input; when both bounds are given and no entry's first-of-month date lies
\* in [startDate, endDate], the result is the unfiltered list.
C5_NeverEmptiesNonEmptyInput ==
    Filtered =>
        /\ Len(monthlyVariations) > 0 => Len(filteredVariations) > 0
        /\ (/\ ~Falsy(startDate) /\ ~Falsy(endDate)
            /\ \A i \in 1..Len(monthlyVariations) :
                  ~InRangeCal(monthlyVariations[i], startDate, endDate))
              => filteredVariations = monthlyVariations

\* C5 witness: both bounds are dates, the list is non-empty, no entry is in
\* range, and the unfiltered list came back.
C5_Witness ==
    /\ Filtered
    /\ BoundIsDate(startDate) /\ BoundIsDate(endDate)
    /\ CalNum(startDate[1]) <= CalNum(endDate[1])
    /\ Len(monthlyVariations) > 0
    /\ \A i \in 1..Len(monthlyVariations) :
          ~InRangeCal(monthlyVariations[i], startDate, endDate)
    /\ filteredVariations = monthlyVariations

\* C6: with two valid ISO bounds and at least one entry in range, the result
\* is exactly the entries with startDate <= first-of-month <= endDate, in
\* input order.
C6_KeepsExactlyTheEntriesInRange ==
    (/\ Filtered
     /\ BoundIsDate(startDate) /\ BoundIsDate(endDate)
     /\ \E i \in 1..Len(monthlyVariations) :
           InRangeCal(monthlyVariations[i], startDate, endDate))
        => LET Keep(v) == InRangeCal(v, startDate, endDate)
           IN  filteredVariations = SelectSeq(monthlyVariations, Keep)

\* C6 witness: an entry was dropped and an entry whose first-of-month date
\* is the end bound itself was kept.
C6_Witness ==
    /\ Filtered
    /\ BoundIsDate(startDate) /\ BoundIsDate(endDate)
    /\ Len(filteredVariations) < Len(monthlyVariations)
    /\ \E i \in 1..Len(filteredVariations) :
          FirstOfMonthNum(filteredVariations[i]) = CalNum(endDate[1])

\* The bound is missing, '' or the placeholder 'undefined'.
NoFilterBound(b) == b = Undefined \/ b[1] = <<>> \/ b[1] = StrUndefined

\* C7: if either bound is missing, empty or 'undefined', the full input list
\* is returned unmodified.
C7_MissingBoundMeansNoFilter ==
    (Filtered /\ (NoFilterBound(startDate) \/ NoFilterBound(endDate)))
        => filteredVariations = monthlyVariations

\* C7 witness: endDate is 'undefined', startDate is a date after the first
\* entry's month, and the full list of two or more entries came back.
C7_Witness ==
    /\ Filtered
    /\ endDate = Some(StrUndefined)
    /\ BoundIsDate(startDate)
    /\ Len(monthlyVariations) >= 2
    /\ FirstOfMonthNum(monthlyVariations[1]) < CalNum(startDate[1])
    /\ filteredVariations = monthlyVariations

----------------------------------------------------------------------------
(* C8 *)

\* The date names a year, a month in 1..12 and a day, in digits.
NamesCalendarMonth(s) ==
    CalReadable(s) /\ DigitsValue(Split(s, "-")[2]) \in 1..12

\* C8: a month whose records are exactly one valid record with a non-zero
\* price yields exactly one MonthlyVariation, with variation 0.00 and
\* firstDayPrice = lastDayPrice (the record's price).
C8_SingleRecordMonth ==
    Calculated =>
        \A k \in KeysOf(data) :
            LET recs == RecordsOfKey(data, k)
            IN  (Len(recs) = 1 /\ recs[1].price /= 0 /\ NamesCalendarMonth(recs[1].date))
                    => /\ Cardinality(EntriesOfKey(k)) = 1
                       /\ \A i \in EntriesOfKey(k) :
                             /\ monthlyVariations[i].variation = 0
                             /\ monthlyVariations[i].firstDayPrice = recs[1].price
                             /\ monthlyVariations[i].lastDayPrice = recs[1].price

\* C8 witness: a month with a single valid priced record has been emitted
\* next to another month.
C8_Witness ==
    /\ Calculated
    /\ Len(monthlyVariations) >= 2
    /\ \E k \in KeysOf(data) :
          LET recs == RecordsOfKey(data, k)
          IN  /\ Len(recs) = 1 /\ recs[1].price /= 0 /\ IsISODate(recs[1].date)
              /\ k \in Range(emittedKeys)

----------------------------------------------------------------------------
(* C9 *)

\* C9: a month is skipped whenever the price of its earliest record or of
\* its latest record is falsy; a record with a date and no price is kept in
\* its month with price 0 and counts as a zero price.
C9_SkippedWhenEarliestOrLatestPriceFalsy ==
    Calculated =>
        \A k \in KeysOf(data) :
            LET recs == RecordsOfKey(data, k)
            IN  /\ MapGet(groupDataByMonth(data), k) = recs
                /\ (/\ AllCalReadable(recs)
                    /\ (EarliestRecord(recs).price = 0 \/ LatestRecord(recs).price = 0))
                      => k \notin Range(emittedKeys)

----------------------------------------------------------------------------
(* C10 *)

KeyYear(k) == parseInt(Split(k, "-")[1])
KeyMonth(k) == parseInt(Split(k, "-")[2])

\* C10: no entry is emitted for a month key whose year or month does not
\* parse as an integer or whose month number is outside 1..12; every emitted
\* entry has a month number in 1..12 and one of the twelve names Ene..Dic,
\* never "Desconocido".
C10_NoEntryForInvalidMonthKey ==
    Calculated =>
        /\ \A k \in KeysOf(data) :
              (KeyYear(k) = NaN \/ KeyMonth(k) = NaN \/ KeyMonth(k)[1] \notin 1..12)
                  => k \notin Range(emittedKeys)
        /\ \A i \in 1..Len(monthlyVariations) :
              /\ KeyMonth(emittedKeys[i]) /= NaN
              /\ KeyMonth(emittedKeys[i])[1] \in 1..12
              /\ monthlyVariations[i].month = monthNames[KeyMonth(emittedKeys[i])[1]]
              /\ monthlyVariations[i].month /= "Desconocido"

\* C10 witness: the input holds a priced record dated 2023-13-01, grouped
\* under key 2023-13, and another month has been emitted.
C10_Witness ==
    /\ Calculated
    /\ Len(monthlyVariations) >= 1
    /\ \E k \in KeysOf(data) :
          /\ k = Y2023 \o <<"-", "1", "3">>
          /\ RecordsOfKey(data, k)[1].price /= 0

----------------------------------------------------------------------------
(* C11 *)

\* A record the claim calls malformed: not an object, without a string date
\* of two dash-separated components, or without a price.
Malformed(day) == day.kind = "null" \/ ~IsAccepted(day) \/ RawPrice(day) = Undefined

WellShaped(day) == ~Malformed(day)

\* C11: calculateMonthlyVariation never raises for a malformed record of its
\* input list; the result is the one computed from the remaining records.
C11_MalformedRecordsSilentlyExcluded ==
    /\ pc /= "raised"
    /\ Calculated =>
          monthlyVariations = calculateMonthlyVariation(SelectSeq(data, WellShaped))

----------------------------------------------------------------------------
(* C12 *)

\* calculateMonthlyVariation has been called and has returned or raised.
Called == pc \in {"calculated", "raised"}

\* A usable daily record: a well-shaped record with a non-zero price whose
\* date names a year and a month in 1..12.
Usable(day) ==
    /\ WellShaped(day)
    /\ RawPrice(day)[1] /= 0
    /\ KeyYear(KeyOfDay(day)) /= NaN
    /\ KeyMonth(KeyOfDay(day)) /= NaN
    /\ KeyMonth(KeyOfDay(day))[1] \in 1..12

UsableCount(d) == Cardinality({i \in 1..Len(d) : Usable(d[i])})

----------------------------------------------------------------------------
(* C13 *)

----------------------------------------------------------------------------
(* C14 *)

\* The record is { date: d, price: p } or { attributes: { date: d, price: p } }.
IsFlatPair(day) ==
    /\ day.kind = "object" /\ day.dateType = "string"
    /\ day.date /= Undefined /\ day.price /= Undefined /\ day.attributes = Undefined

IsNestedPair(day) ==
    /\ day.kind = "object" /\ day.dateType = "string"
    /\ day.date = Undefined /\ day.price = Undefined /\ day.attributes /= Undefined
    /\ day.attributes[1].date /= Undefined /\ day.attributes[1].price /= Undefined

\* The same (date, price) pair in the other of the two shapes.
OtherShape(day) ==
    IF IsFlatPair(day) THEN Nested(day.date[1], day.price[1])
    ELSE IF IsNestedPair(day) THEN Flat(day.attributes[1].date[1], day.attributes[1].price[1])
    ELSE day

AllOtherShape(d) == [i \in 1..Len(d) |-> OtherShape(d[i])]

\* C14: a nested record and the flat record of the same date and price have
\* the same canonical pair; replacing one record of the input, or all of
\* them, by the other shape changes neither the Map of groupDataByMonth nor
\* the result of calculateMonthlyVariation.
C14_ShapeDoesNotMatter ==
    Calculated =>
        /\ \A i \in 1..Len(data) :
              (IsFlatPair(data[i]) \/ IsNestedPair(data[i])) =>
                  LET swapped == [data EXCEPT ![i] = OtherShape(data[i])]
                  IN  /\ Canon(swapped[i]) = Canon(data[i])
                      /\ groupDataByMonth(swapped) = groupDataByMonth(data)
                      /\ calculateMonthlyVariation(swapped) = monthlyVariations
        /\ groupDataByMonth(AllOtherShape(data)) = groupDataByMonth(data)
        /\ calculateMonthlyVariation(AllOtherShape(data)) = monthlyVariations

\* C14 witness: the input mixes a flat and a nested record and both months
\* have been emitted.
C14_Witness ==
    /\ Calculated
    /\ \E i, j \in 1..Len(data) : IsFlatPair(data[i]) /\ IsNestedPair(data[j])
    /\ Len(monthlyVariations) >= 2

----------------------------------------------------------------------------
(* C15 *)

AcceptedCount(d) == Cardinality({i \in 1..Len(d) : IsAccepted(d[i])})

RECURSIVE BucketTotal(_)
BucketTotal(monthlyData) ==
    IF monthlyData = <<>> THEN 0
    ELSE Len(monthlyData[1].days) + BucketTotal(Tail(monthlyData))

----------------------------------------------------------------------------
(* C16 *)

\* calculateStatistics(filteredVariations) has returned.
HasStatistics == pc \in {"statistics", "charted"}

\* C16: for the empty list calculateStatistics returns average 0, max 0,
\* min 0, positiveCount 0 and negativeCount 0.
C16_StatisticsOfEmptyList ==
    (HasStatistics /\ filteredVariations = <<>>) =>
        /\ statistics /= Undefined
        /\ statistics[1].average.num = 0
        /\ statistics[1].max = 0
        /\ statistics[1].min = 0
        /\ statistics[1].positiveCount = 0
        /\ statistics[1].negativeCount = 0

\* C16 witness: the statistics of the empty list have been computed.
C16_Witness ==
    /\ pc = "statistics"
    /\ filteredVariations = <<>>
    /\ statistics /= Undefined
    /\ statistics[1].totalMonths = 0

----------------------------------------------------------------------------
(* C17 *)

PositiveEntries(vs) == {i \in 1..Len(vs) : vs[i].variation > 0}
NegativeEntries(vs) == {i \in 1..Len(vs) : vs[i].variation < 0}

\* The sum of the variations, from the first entry on.
RECURSIVE TotalVariation(_)
TotalVariation(vs) == IF vs = <<>> THEN 0 ELSE vs[1].variation + TotalVariation(Tail(vs))

----------------------------------------------------------------------------
(* C18 *)

\* The colour of the palette for the series at position p (from 0).
PaletteColor(p) == colors[(p % Len(colors)) + 1]

\* C18: each series of the chart has the palette colour of its position
\* among the displayed series, whatever the fund and the number of data
\* points: a call for the same fund with any other list returns the same
\* colour at the same position.
C18_ColorBySeriesPosition ==
    pc = "charted" =>
        LET datasets == chartData[1].datasets
        IN  \A p \in 1..Len(datasets) :
              /\ datasets[p].borderColor = PaletteColor(p - 1).border
              /\ datasets[p].backgroundColor = PaletteColor(p - 1).background
              /\ \A other \in VariationLists :
                    createChartData(other, datasets[p].label).datasets[p].borderColor
                        = datasets[p].borderColor

----------------------------------------------------------------------------
(* C19 *)

\* C19: labels and data of the chart have the length of the input list;
\* label i is the month name of entry i, a space and the digits of its
\* year, and value i is its variation.
C19_LabelsAndDataFollowTheList ==
    pc = "charted" =>
        LET labels == chartData[1].labels
            series == chartData[1].datasets[1].data
            vs     == filteredVariations
        IN  /\ Len(labels) = Len(vs)
            /\ Len(series) = Len(vs)
            /\ \A i \in 1..Len(vs) :
                  /\ Len(labels[i]) > 2
                  /\ labels[i][1] = vs[i].month
                  /\ labels[i][2] = " "
                  /\ AllDigits(SubSeq(labels[i], 3, Len(labels[i])))
                  /\ DigitsValue(SubSeq(labels[i], 3, Len(labels[i]))) = vs[i].year
                  /\ series[i] = vs[i].variation

\* C19 witness: the chart of a list of at least two entries with different
\* labels and different variations has been built.
C19_Witness ==
    /\ pc = "charted"
    /\ Len(filteredVariations) >= 2
    /\ Len(chartData[1].labels) = Len(filteredVariations)
    /\ chartData[1].labels[1] /= chartData[1].labels[2]
    /\ chartData[1].datasets[1].data[1] /= chartData[1].datasets[1].data[2]

----------------------------------------------------------------------------
(* C20 *)

\* C20: whenever appState is 'loaded', monthlyVariations were computed from
\* the response to a request for the fund that is selected now: the response
\* of a request made before a fund change or a retry is never applied.
C20_LoadedShowsSelectedFund ==
    appState = "loaded" => loadedFrom = Some(selectedAssetId)

----------------------------------------------------------------------------
(* C25 *)

\* C25: the output of calculateMonthlyVariation holds at most one entry per
\* (year, month) pair, for every input list, lists whose dates spell one
\* month in two ways ("2023-1-05", "2023-01-20") included.
C25_OneEntryPerYearAndMonth ==
    Calculated =>
        \A i, j \in 1..Len(monthlyVariations) :
            ( /\ monthlyVariations[i].year = monthlyVariations[j].year
              /\ monthlyVariations[i].month = monthlyVariations[j].month ) => i = j

----------------------------------------------------------------------------
(* C21 *)

\* The answer is a response the component has to reject: no body, or a
\* body without a data list.
InvalidResponse(a) == a.kind = "null" \/ (a.kind = "object" /\ ~a.hasData)

\* C21: once the API has answered a request of loadAssetData, appState is
\* not left at 'loading': a failure puts the dashboard in state 'error' with
\* the message 'Error al cargar los datos desde la API', a null or undefined
\* response or one without a data list in state 'error' with the message
\* 'Respuesta inválida de la API'.
C21_EveryAnswerLeavesLoading ==
    answer /= Undefined =>
        /\ appState /= "loading"
        /\ answer[1] = Failure =>
              appState = "error" /\ errorMessage = "Error al cargar los datos desde la API"
        /\ InvalidResponse(answer[1]) =>
              appState = "error" /\ errorMessage = "Respuesta inválida de la API"

----------------------------------------------------------------------------
(* C22 *)

\* C22: after the next callback has handled a response with a data list,
\* appState is 'error' with the message 'Datos insuficientes para análisis'
\* when the list holds fewer than 2 usable daily records; otherwise it is
\* 'loaded' if and only if the computed monthlyVariations are non-empty, and
\* 'empty' when they are empty.
C22_StateDeterminedByData ==
    (answer /= Undefined /\ answer[1].kind = "object" /\ answer[1].hasData) =>
        IF UsableCount(answer[1].data) < 2
        THEN appState = "error" /\ errorMessage = "Datos insuficientes para análisis"
        ELSE /\ appState = "loaded" <=> monthlyVariations /= <<>>
             /\ monthlyVariations = <<>> => appState = "empty"

----------------------------------------------------------------------------
(* C23 *)

\* The chart shows the list: one label per entry, and in each dataset one
\* data point per entry, in the order of the list.
ChartShows(chart, variations) ==
    /\ chart.labels = [i \in 1..Len(variations) |-> Label(variations[i])]
    /\ \A k \in 1..Len(chart.datasets) :
          chart.datasets[k].data = [i \in 1..Len(variations) |-> variations[i].variation]

\* C23: in every state the component reaches, and so after every handler
\* that changes the filter or the data (onDateFilterChange, applyPresetRange
\* with a valid index, a successful load), the derived signals agree with
\* their sources: filteredVariations is filterDataByDateRange of
\* monthlyVariations, startDate and endDate; statistics is
\* calculateStatistics of filteredVariations; chartData has one label and
\* one data point per entry of filteredVariations, in a single dataset once
\* a handler has drawn it.
C23_DerivedStateConsistent ==
    /\ filteredVariations = filterDataByDateRange(monthlyVariations, startDate, endDate)
    /\ statistics = Some(calculateStatistics(filteredVariations))
    /\ ChartShows(chartData[1], filteredVariations)
    /\ chartData[1] = EmptyChart \/ Len(chartData[1].datasets) = 1

\* C23 witness: onDateFilterChange() has run with the start date the user
\* typed, 2023-02-01, on a loaded list of two months: one month is hidden,
\* and statistics and chart hold the other.
C23_Witness ==
    /\ appState = "loaded"
    /\ Len(monthlyVariations) = 2
    /\ startDate = Some(Ymd(Y2023, <<"0", "2">>, <<"0", "1">>))
    /\ filteredVariations = <<monthlyVariations[2]>>
    /\ statistics[1].totalMonths = 1
    /\ Len(chartData[1].labels) = 1
    /\ answer = Undefined

----------------------------------------------------------------------------
(* C24 *)

\* C24: ngOnDestroy() cleans up every subscription of the component: once
\* it has run, no step (no response and no error of a request sent before)
\* changes appState, errorMessage, monthlyVariations, filteredVariations,
\* statistics or chartData.
C24_NothingChangesAfterDestroy ==
    [][lifecycle = "destroyed" =>
          UNCHANGED <<appState, errorMessage, monthlyVariations, filteredVariations,
                      statistics, chartData>>]_vars

====
